---------------------------- MODULE Spec2Model ----------------------------
(***************************************************************************)
(* A model of the core of the json-ld processor:                           *)
(*   - json_ld_eq, the structural equality of JSON-LD values               *)
(*     (src/util/json/build.rs);                                           *)
(*   - expand, the top-level expansion driver (src/expansion/mod.rs);      *)
(*   - the context processing entry points and the active context          *)
(*     (src/context/mod.rs);                                               *)
(*   - the key expansion policies (src/expansion/mod.rs).                  *)
(* Each part has its own specification over the module's variables; the    *)
(* variables of the other parts stay at their idle values.                 *)
(***************************************************************************)
EXTENDS Integers, Sequences, FiniteSets

VARIABLES
    arg_a,           \* json_ld_eq: first argument
    arg_b,           \* json_ld_eq: second argument
    eq,              \* json_ld_eq: <<>> before the call, then <<result>>
    expanded,        \* expand: what expand_element returned for the document
    warnings,        \* expand: the warnings collected by expand_element
    result,          \* expand: <<>> before the call returns, then <<Result>>
    active_context,  \* context processing: the caller's active context
    call,            \* context processing: <<>> or <<arguments of the last call>>
    processed,       \* context processing: <<>> or <<result of the last call>>
    stack,           \* context processing: the ProcessingStack of the last call
    pending,         \* context processing: <<>> or <<call awaiting the loader>>
    loader,          \* context processing: what the loader returns for each IRI
    input_document,  \* expansion: the document to expand
    start_context,   \* expansion: the active context the expansion starts from
    outcome,         \* expansion: for each policy, <<>> or <<Result of expand>>
    mode,            \* processing mode: the mode at hand
    name,            \* processing mode: the name handed to try_from
    mode_name,       \* processing mode: <<>> or <<mode.as_str()>>
    from_name,       \* processing mode: <<>> or <<try_from(name)>>
    displayed,       \* processing mode: <<>> or <<what Display wrote>>
    reparsed,        \* processing mode: <<>> or <<try_from(mode.as_str())>>
    iteration,       \* ordered expansion: the entries as two runs iterate over them
    run_options,     \* ordered expansion: the Options of both runs
    runs,            \* ordered expansion: for each run, <<>> or <<enumeration and result>>
    local_terms,     \* term definitions: the local context, term -> its @id
    requests,        \* term definitions: the terms still to request
    defined,         \* term definitions: the defined map
    creating,        \* term definitions: the terms being created, innermost last
    term_definitions,\* term definitions: the committed IRI mappings
    creation,        \* term definitions: <<>> while running, then <<Result>>
    json,            \* context object: a Json context
    created_with,    \* context object: the base IRI it was created with
    setter           \* context object: <<>> or <<the last setter and its argument>>

eqVars == <<arg_a, arg_b, eq>>

driverVars == <<expanded, warnings, result>>

contextVars == <<active_context, call, processed, stack, pending, loader>>

expandVars == <<input_document, start_context, outcome>>

modeVars == <<mode, name, mode_name, from_name, displayed, reparsed>>

orderVars == <<iteration, run_options, runs>>

defineVars ==
    <<local_terms, requests, defined, creating, term_definitions, creation>>

setterVars == <<json, created_with, setter>>

vars == <<arg_a, arg_b, eq, expanded, warnings, result,
          active_context, call, processed, stack, pending, loader,
          input_document, start_context, outcome,
          mode, name, mode_name, from_name, displayed, reparsed,
          iteration, run_options, runs,
          local_terms, requests, defined, creating, term_definitions, creation,
          json, created_with, setter>>

(***************************************************************************)
(* Bounds.                                                                 *)
(***************************************************************************)
\* Longest top-level array (and `@list` array) handed to json_ld_eq.
MaxLen == 2

\* Most items expand_element returns for the document root.
MaxItems == 2

\* Most items under one `@graph` key.
MaxMembers == 2

\* Most contexts in a local context array.
MaxContexts == 2

\* Most entries of the root object of an expanded document.
MaxEntries == 3

\* Most entries of the object expanded by two runs.
MaxKeys == 3

(***************************************************************************)
(* JSON values (generic_json::ValueRef): one record shape per kind.  An    *)
(* object is the sequence of its entries <<key, value>>, in iteration      *)
(* order, with unique keys.                                                *)
(***************************************************************************)
Null == [kind |-> "null"]

Bool(x) == [kind |-> "boolean", b |-> x]

Num(x) == [kind |-> "number", n |-> x]

Str(x) == [kind |-> "string", s |-> x]

Arr(xs) == [kind |-> "array", items |-> xs]

Obj(es) == [kind |-> "object", entries |-> es]

\* The sequences over S of length 0..n.
SeqsUpTo(S, n) == UNION {[1..k -> S] : k \in 0..n}

\* Object::get: the value of the first entry with this key, or <<>> for None.
ObjGet(es, key) ==
    LET hits == {i \in DOMAIN es : es[i][1] = key}
    IN  IF hits = {} THEN <<>>
        ELSE <<es[CHOOSE i \in hits : \A j \in hits : i <= j][2]>>

(***************************************************************************)
(* json_ld_eq (src/util/json/build.rs:141-203).                            *)
(***************************************************************************)
RECURSIVE json_ld_eq(_, _)
RECURSIVE array_select(_, _, _, _)

\* The body of the 'a_items loop for the items k.. of a: `selected` is the
\* set of indices of b already paired.  The first unselected item of b that
\* is json_ld_eq to a[k] is selected; if there is none the result is false.
array_select(as, bs, k, selected) ==
    IF k > Len(as) THEN TRUE
    ELSE LET cand == {i \in DOMAIN bs :
                        i \notin selected /\ json_ld_eq(as[k], bs[i])}
         IN  IF cand = {} THEN FALSE
             ELSE LET i == CHOOSE c \in cand : \A d \in cand : c <= d
                  IN  array_select(as, bs, k + 1, selected \cup {i})

\* A faulty pairing that never marks an item of b as selected.
array_eq_reuse(as, bs) ==
    \A k \in DOMAIN as : \E i \in DOMAIN bs : json_ld_eq(as[k], bs[i])

\* The (Array, Array) arm, lengths already equal.
array_eq(as, bs) ==
    array_select(as, bs, 1, {})

\* A faulty `@list` comparison that compares the two values as sets.
list_eq_unordered(value_a, value_b) ==
    json_ld_eq(value_a, value_b)

\* The value of an `@list` key: arrays of the same length are compared item
\* by item, in order; anything else falls back to json_ld_eq.
list_eq(value_a, value_b) ==
    IF /\ value_a.kind = "array"
       /\ value_b.kind = "array"
       /\ Len(value_a.items) = Len(value_b.items)
    THEN \A i \in DOMAIN value_a.items :
            json_ld_eq(value_a.items[i], value_b.items[i])
    ELSE json_ld_eq(value_a, value_b)

\* The (Object, Object) arm, lengths already equal.
object_eq(ea, eb) ==
    \A i \in DOMAIN ea :
        LET key == ea[i][1]
            value_a == ea[i][2]
            got == ObjGet(eb, key)
        IN  /\ got # <<>>
            /\ IF key = "@list"
               THEN list_eq(value_a, got[1])
               ELSE json_ld_eq(value_a, got[1])

\* A faulty json_ld_eq without the length guard of the object arm.
json_ld_eq_unguarded(x, y) ==
    IF x.kind = "array" /\ y.kind = "array" /\ Len(x.items) = Len(y.items)
    THEN array_eq(x.items, y.items)
    ELSE IF x.kind = "object" /\ y.kind = "object"
    THEN object_eq(x.entries, y.entries)
    ELSE IF x.kind = "null" /\ y.kind = "null" THEN TRUE
    ELSE IF x.kind = "boolean" /\ y.kind = "boolean" THEN x.b = y.b
    ELSE IF x.kind = "number" /\ y.kind = "number" THEN x.n = y.n
    ELSE IF x.kind = "string" /\ y.kind = "string" THEN x.s = y.s
    ELSE FALSE

json_ld_eq(x, y) ==
    IF x.kind = "array" /\ y.kind = "array" /\ Len(x.items) = Len(y.items)
    THEN array_eq(x.items, y.items)
    ELSE IF /\ x.kind = "object"
            /\ y.kind = "object"
            /\ Len(x.entries) = Len(y.entries)
    THEN object_eq(x.entries, y.entries)
    ELSE IF x.kind = "null" /\ y.kind = "null" THEN TRUE
    ELSE IF x.kind = "boolean" /\ y.kind = "boolean" THEN x.b = y.b
    ELSE IF x.kind = "number" /\ y.kind = "number" THEN x.n = y.n
    ELSE IF x.kind = "string" /\ y.kind = "string" THEN x.s = y.s
    ELSE FALSE

(***************************************************************************)
(* The values json_ld_eq is applied to.                                    *)
(***************************************************************************)
ListObj(xs) == Obj(<<<<"@list", Arr(xs)>>>>)

\* Items of a list: scalars and two arrays that are equal as sets only.
ListItems ==
    {Num(1), Num(2), Arr(<<Num(1), Num(2)>>), Arr(<<Num(2), Num(1)>>)}

\* Items of a set: the list items and two lists that differ in order only.
SetItems ==
    ListItems \cup {ListObj(<<Num(1), Num(2)>>), ListObj(<<Num(2), Num(1)>>)}

EqValues ==
    {Null, Bool(TRUE), Str("a"), Obj(<<<<"@list", Num(1)>>>>),
     Obj(<<<<"@index", Str("a")>>, <<"@list", Arr(<<Num(1), Num(2)>>)>>>>),
     Obj(<<<<"@list", Arr(<<Num(2), Num(1)>>)>>, <<"@index", Str("a")>>>>),
     Obj(<<<<"@list", Arr(<<Num(1), Num(2)>>)>>, <<"@index", Str("a")>>>>),
     Obj(<<<<"p", Arr(<<Num(1), Num(2)>>)>>>>),
     Obj(<<<<"p", Arr(<<Num(2), Num(1)>>)>>>>),
     Obj(<<<<"p", Arr(<<Num(1), Num(2)>>)>>, <<"@index", Str("a")>>>>),
     Bool(FALSE), Num(1), Num(2), Str("b")}
    \cup {Arr(xs) : xs \in SeqsUpTo(SetItems, MaxLen)}
    \cup {ListObj(xs) : xs \in SeqsUpTo(ListItems, MaxLen)}

EqIdle == arg_a = Null /\ arg_b = Null /\ eq = <<>>

EqInit ==
    /\ arg_a \in EqValues
    /\ arg_b \in EqValues
    /\ eq = <<>>

\* The call json_ld_eq(&a, &b).
Compare ==
    /\ eq = <<>>
    /\ eq' = <<json_ld_eq(arg_a, arg_b)>>
    /\ UNCHANGED <<arg_a, arg_b>>
    /\ UNCHANGED <<driverVars, contextVars, expandVars, modeVars,
                   orderVars, defineVars, setterVars>>

EqNext == Compare


(***************************************************************************)
(* Results: Ok(v) and Err(e).                                              *)
(***************************************************************************)
Ok(v) == [ok |-> TRUE, val |-> v]

Err(e) == [ok |-> FALSE, error |-> e]

Range(f) == {f[i] : i \in DOMAIN f}

EmptyMap == [t \in {} |-> <<>>]

(***************************************************************************)
(* References (spec 3): what a key or a value resolves to.                 *)
(***************************************************************************)
Keyword(k) == [ref |-> "Keyword", k |-> k]

Iri(i) == [ref |-> "Iri", iri |-> i]

Blank(label) == [ref |-> "Blank", label |-> label]

Invalid(raw) == [ref |-> "Invalid", raw |-> raw]

(***************************************************************************)
(* Expanded objects (Indexed<Object<J, T>>).  id and index are <<>> for    *)
(* None and <<x>> for Some(x); graph is <<>> or <<set of members>>.        *)
(***************************************************************************)
Indexed(o, i) == [inner |-> o, index |-> i]

ValueObject(v) == [type |-> "Value", value |-> v]

ListObject(xs) == [type |-> "List", items |-> xs]

\* properties maps each property reference to its non-empty value list.
NodeObject(id, types, props, graph) ==
    [type |-> "Node", id |-> id, types |-> types, props |-> props,
     graph |-> graph]

\* A faulty filter that keeps every item.
filter_keep_all(item) == TRUE

\* filter_top_level_item: remove dangling values.
filter_top_level_item(item) == item.inner.type # "Value"

\* Node::is_unnamed_graph: the node's only field is `@graph`.
is_unnamed_graph(node) ==
    /\ node.graph # <<>>
    /\ node.id = <<>>
    /\ node.types = {}
    /\ DOMAIN node.props = {}

\* Indexed<Object>::into_unnamed_graph: Ok(members) for a default graph,
\* Err(the item itself) for anything else.
into_unnamed_graph(item) ==
    IF item.inner.type = "Node" /\ is_unnamed_graph(item.inner)
    THEN Ok(item.inner.graph[1])
    ELSE Err(item)

\* The `@graph` entry of a node: its value is expanded with `@graph` as the
\* active property and the dangling values are dropped from the member set.
expand_graph_entry(members) ==
    <<{m \in Range(members) : filter_top_level_item(m)}>>

\* A faulty driver that turns a failed expansion into an empty set.
expand_swallow_error(r) ==
    IF ~r.ok THEN Ok({})
    ELSE IF Len(r.val) = 1
    THEN LET unwrapped == into_unnamed_graph(r.val[1])
         IN  IF unwrapped.ok THEN Ok(unwrapped.val)
             ELSE Ok({o \in {unwrapped.error} : filter_top_level_item(o)})
    ELSE Ok({o \in Range(r.val) : filter_top_level_item(o)})

\* A faulty driver that unwraps a leading default graph whatever the length.
expand_unwrap_first(r) ==
    IF ~r.ok THEN r
    ELSE IF Len(r.val) >= 1 /\ into_unnamed_graph(r.val[1]).ok
    THEN Ok(into_unnamed_graph(r.val[1]).val)
    ELSE Ok({o \in Range(r.val) : filter_top_level_item(o)})

\* expand, after expand_element returned r: `?` hands an error back as it
\* is; a sole default graph is unwrapped; otherwise the items are filtered
\* and collected into a set.
expand(r) ==
    IF ~r.ok THEN r
    ELSE IF Len(r.val) = 1
    THEN LET unwrapped == into_unnamed_graph(r.val[1])
         IN  IF unwrapped.ok THEN Ok(unwrapped.val)
             ELSE Ok({o \in {unwrapped.error} : filter_top_level_item(o)})
    ELSE Ok({o \in Range(r.val) : filter_top_level_item(o)})

(***************************************************************************)
(* What expand_element may return for the document root.                   *)
(***************************************************************************)
NoProperties == EmptyMap

SomeProperties ==
    [r \in {Iri("http://a/p")} |-> <<Indexed(ValueObject("v"), <<>>)>>]

LeafItems ==
    {Indexed(ValueObject("v"), <<>>),
     Indexed(NodeObject(<<Iri("http://a/n")>>, {}, NoProperties, <<>>), <<>>),
     Indexed(NodeObject(<<>>, {}, SomeProperties, <<>>), <<>>),
     Indexed(ListObject(<<>>), <<>>)}

GraphItems ==
    {Indexed(NodeObject(id, {}, props, expand_graph_entry(ms)), idx) :
        id \in {<<>>, <<Iri("http://a/g")>>},
        props \in {NoProperties, SomeProperties}, idx \in {<<>>},
        ms \in SeqsUpTo(LeafItems, MaxMembers)}
    \cup {Indexed(NodeObject(<<>>, {}, NoProperties, expand_graph_entry(ms)),
                  <<"i">>) :
            ms \in SeqsUpTo(LeafItems, MaxMembers)}

ErrorKinds == {"InvalidIdValue", "InvalidValueObject"}

ExpandElementResults ==
    {Ok(xs) : xs \in SeqsUpTo(LeafItems \cup GraphItems, MaxItems)}
    \cup {Err(e) : e \in ErrorKinds}

DriverIdle == expanded = Ok(<<>>) /\ warnings = <<>> /\ result = <<>>

DriverInit ==
    /\ expanded \in ExpandElementResults
    /\ warnings \in {<<>>, <<"KeyExpansionFailed">>}
    /\ result = <<>>

\* expand returns.
ExpandReturn ==
    /\ result = <<>>
    /\ result' = <<expand(expanded)>>
    /\ UNCHANGED <<expanded, warnings>>
    /\ UNCHANGED <<eqVars, contextVars, expandVars, modeVars,
                   orderVars, defineVars, setterVars>>

DriverNext == ExpandReturn

(***************************************************************************)
(* Processing options (src/context/mod.rs:27-74) and modes (src/mode.rs).  *)
(***************************************************************************)
ProcessingModes == {"JsonLd1_0", "JsonLd1_1"}

ProcessingMode_default == "JsonLd1_1"

\* Faulty default options that override protected definitions.
ProcessingOptions_default_overriding ==
    [processing_mode |-> ProcessingMode_default,
     override_protected |-> TRUE,
     propagate |-> TRUE]

ProcessingOptions_default ==
    [processing_mode |-> ProcessingMode_default,
     override_protected |-> FALSE,
     propagate |-> TRUE]

with_override(opt) == [opt EXCEPT !.override_protected = TRUE]

with_no_override(opt) == [opt EXCEPT !.override_protected = FALSE]

\* A faulty without_propagation that returns the options as they are.
without_propagation_kept(opt) == opt

without_propagation(opt) == [opt EXCEPT !.propagate = FALSE]

(***************************************************************************)
(* The active context, context::Json (src/context/mod.rs:400-532).         *)
(* Option fields are <<>> for None and <<x>> for Some(x); definitions is   *)
(* the map from the defined terms to their definitions.                    *)
(***************************************************************************)
Json_new(base_iri) ==
    [original_base_url |-> base_iri,
     base_iri |-> base_iri,
     vocabulary |-> <<>>,
     default_language |-> <<>>,
     default_base_direction |-> <<>>,
     previous_context |-> <<>>,
     definitions |-> EmptyMap]

Json_default == Json_new(<<>>)

\* Context::get.
get(ctx, term) ==
    IF term \in DOMAIN ctx.definitions THEN <<ctx.definitions[term]>> ELSE <<>>

\* A faulty set that removes the term whatever the definition.
set_remove_only(ctx, term, definition) ==
    [ctx EXCEPT !.definitions =
        [t \in DOMAIN ctx.definitions \ {term} |-> ctx.definitions[t]]]

\* ContextMut::set: insert Some(definition), remove on None.
set(ctx, term, definition) ==
    IF definition # <<>>
    THEN [ctx EXCEPT !.definitions =
            [t \in DOMAIN ctx.definitions \cup {term} |->
                IF t = term THEN definition[1] ELSE ctx.definitions[t]]]
    ELSE [ctx EXCEPT !.definitions =
            [t \in DOMAIN ctx.definitions \ {term} |-> ctx.definitions[t]]]

\* A faulty set_base_iri that moves the original base URL along.
set_base_iri_and_original(ctx, iri) ==
    [ctx EXCEPT !.base_iri = iri, !.original_base_url = iri]

set_base_iri(ctx, iri) == [ctx EXCEPT !.base_iri = iri]

set_vocabulary(ctx, vocab) == [ctx EXCEPT !.vocabulary = vocab]

set_default_language(ctx, lang) == [ctx EXCEPT !.default_language = lang]

set_default_base_direction(ctx, dir) ==
    [ctx EXCEPT !.default_base_direction = dir]

set_previous_context(ctx, previous) ==
    [ctx EXCEPT !.previous_context = <<previous>>]

(***************************************************************************)
(* Strings.  The characters of the strings that the expansion inspects.    *)
(***************************************************************************)
Chars(str) ==
    CASE str = "name" -> <<"n", "a", "m", "e">>
      [] str = "other" -> <<"o", "t", "h", "e", "r">>
      [] str = "foo" -> <<"f", "o", "o">>
      [] str = ":bad" -> <<":", "b", "a", "d">>
      [] str = "ex:p" -> <<"e", "x", ":", "p">>
      [] str = "_:b" -> <<"_", ":", "b">>
      [] str = "Person" -> <<"P", "e", "r", "s", "o", "n">>
      [] str = "http://e/1" ->
            <<"h", "t", "t", "p", ":", "/", "/", "e", "/", "1">>
      [] str = "@id" -> <<"@", "i", "d">>
      [] str = "@type" -> <<"@", "t", "y", "p", "e">>
      [] str = "@context" -> <<"@", "c", "o", "n", "t", "e", "x", "t">>
      [] str = "bad" -> <<"b", "a", "d">>
      [] str = "p" -> <<"p">>
      [] str = "b" -> <<"b">>

\* The string of the given characters.
FromChars(cs) ==
    CHOOSE str \in {"name", "other", "foo", ":bad", "ex:p", "_:b", "Person",
                    "http://e/1", "@id", "@type", "@context", "bad", "p", "b"} :
        Chars(str) = cs

\* The concatenation of an IRI with a term or suffix.
Concat(iri, str) ==
    CASE iri = "http://v/" /\ str = "name" -> "http://v/name"
      [] iri = "http://v/" /\ str = "foo" -> "http://v/foo"
      [] iri = "http://v/" /\ str = "other" -> "http://v/other"
      [] iri = "http://v/" /\ str = "Person" -> "http://v/Person"
      [] iri = "http://v/" /\ str = "p" -> "http://v/p"

\* str::contains(char)
contains(str, c) == \E i \in DOMAIN Chars(str) : Chars(str)[i] = c

Letters ==
    {"a", "b", "c", "d", "e", "f", "g", "h", "i", "j", "k", "l", "m", "n",
     "o", "p", "q", "r", "s", "t", "u", "v", "w", "x", "y", "z", "P"}

\* The characters before the first `:` form an IRI scheme.
IsScheme(prefix) ==
    Len(prefix) > 0 /\ \A i \in DOMAIN prefix : prefix[i] \in Letters

(***************************************************************************)
(* Term definitions and the Create Term Definition algorithm (spec 4.2).   *)
(* A local context is a JSON value: null, a string (a remote context), an  *)
(* object or an array of these.                                            *)
(***************************************************************************)
\* iri_mapping is <<>> (null) or <<iri>>; context is <<>> or <<the scoped
\* local context, verbatim>>.
TermDefinition(iri_mapping, protected, context, prefix) ==
    [value |-> iri_mapping, protected |-> protected, context |-> context,
     prefix |-> prefix]

IsKeyword(term) ==
    term \in {"@id", "@type", "@value", "@language", "@direction", "@list",
              "@set", "@graph", "@index", "@included", "@reverse",
              "@container", "@context", "@nest", "@vocab", "@base", "@prefix",
              "@protected", "@propagate", "@import", "@version", "@json",
              "@none"}

\* Structural identity of two definitions, other than the protected flag.
SameDefinition(d1, d2) ==
    [d1 EXCEPT !.protected = FALSE] = [d2 EXCEPT !.protected = FALSE]

\* Step 8: without `@id` the IRI mapping is the term prefixed with the
\* vocabulary mapping; a term that has
\* neither is an error.
derived_iri_mapping(active, term) ==
    IF active.vocabulary # <<>> THEN Ok(<<Concat(active.vocabulary[1], term)>>)
    ELSE Err("InvalidIriMapping")

\* Steps 4-9: the definition a local context entry denotes.  `protected` is
\* the local context's `@protected` default.
parse_definition(active, term, value, protected) ==
    IF value.kind = "null"
    THEN Ok(TermDefinition(<<>>, protected, <<>>, FALSE))
    ELSE IF value.kind = "string"
    THEN Ok(TermDefinition(<<value.s>>, protected, <<>>, FALSE))
    ELSE IF value.kind # "object" THEN Err("InvalidTermDefinition")
    ELSE LET id == ObjGet(value.entries, "@id")
             prot == ObjGet(value.entries, "@protected")
             scoped == ObjGet(value.entries, "@context")
             prefix == ObjGet(value.entries, "@prefix")
             mapping == IF id = <<>> THEN derived_iri_mapping(active, term)
                        ELSE IF id[1].kind = "null" THEN Ok(<<>>)
                        ELSE IF id[1].kind = "string" THEN Ok(<<id[1].s>>)
                        ELSE Err("InvalidIriMapping")
         IN  IF prot # <<>> /\ prot[1].kind # "boolean"
             THEN Err("InvalidProtectedValue")
             ELSE IF ~mapping.ok THEN mapping
             ELSE Ok(TermDefinition(
                        mapping.val,
                        IF prot # <<>> THEN prot[1].b ELSE protected,
                        scoped,
                        prefix = <<Bool(TRUE)>>))

\* Create Term Definition for one entry <<term, value>> of a local context.
create_term_definition(active, term, value, protected, options) ==
    IF IsKeyword(term) THEN Err("KeywordRedefinition")
    ELSE LET parsed == parse_definition(active, term, value, protected)
             previous == get(active, term)
         IN  IF ~parsed.ok THEN parsed
             ELSE IF /\ previous # <<>>
                     /\ previous[1].protected
                     /\ ~options.override_protected
             THEN \* Step 10: a protected definition is only redefined by
                  \* an identical one, and is then retained.
                  IF SameDefinition(parsed.val, previous[1])
                  THEN Ok(set(active, term, previous))
                  ELSE Err("ProtectedTermRedefinition")
             ELSE Ok(set(active, term, <<parsed.val>>))

(***************************************************************************)
(* The Context Processing algorithm (spec 4.3), for local contexts that    *)
(* need no loader: null, objects, and arrays of these.                     *)
(***************************************************************************)
RECURSIVE define_terms(_, _, _, _, _)
\* Step 8 of an object context: every key that is no keyword entry is
\* defined, in order, from entry k on; the first error aborts.
define_terms(res, entries, k, protected, options) ==
    IF ~res.ok \/ k > Len(entries) THEN res
    ELSE LET key == entries[k][1]
         IN  IF key \in {"@protected", "@propagate", "@version", "@vocab"}
             THEN define_terms(res, entries, k + 1, protected, options)
             ELSE define_terms(
                    create_term_definition(res.val, key, entries[k][2],
                                           protected, options),
                    entries, k + 1, protected, options)

HasProtected(ctx) ==
    \E t \in DOMAIN ctx.definitions : ctx.definitions[t].protected

\* One element of the local context sequence, applied to `res.val`.
process_element(res, element, options) ==
    IF ~res.ok THEN res
    ELSE IF element.kind = "null"
    THEN IF ~options.override_protected /\ HasProtected(res.val)
         THEN Err("InvalidContextNullification")
         ELSE LET fresh == Json_new(res.val.original_base_url)
              IN  Ok(IF options.propagate THEN fresh
                     ELSE set_previous_context(fresh, res.val))
    ELSE IF element.kind # "object" THEN Err("InvalidLocalContext")
    ELSE LET prot == ObjGet(element.entries, "@protected")
             vocab == ObjGet(element.entries, "@vocab")
             with_vocab ==
                IF vocab = <<>> THEN res.val
                ELSE IF vocab[1].kind = "null"
                THEN set_vocabulary(res.val, <<>>)
                ELSE set_vocabulary(res.val, <<vocab[1].s>>)
         IN  IF prot # <<>> /\ prot[1].kind # "boolean"
             THEN Err("InvalidProtectedValue")
             ELSE IF vocab # <<>> /\ vocab[1].kind \notin {"null", "string"}
             THEN Err("InvalidVocabMapping")
             ELSE define_terms(Ok(with_vocab), element.entries, 1,
                               prot # <<>> /\ prot[1].b, options)

RECURSIVE process_sequence(_, _, _, _)
process_sequence(res, elements, k, options) ==
    IF ~res.ok \/ k > Len(elements) THEN res
    ELSE process_sequence(process_element(res, elements[k], options),
                          elements, k + 1, options)

\* `@propagate` of a lone object context overrides the option.
Propagate(local, options) ==
    IF local.kind = "object" /\ ObjGet(local.entries, "@propagate") # <<>>
    THEN ObjGet(local.entries, "@propagate")[1].b
    ELSE options.propagate

\* process_full for a local context without remote references: the result
\* starts as a clone of the active context; a context that does not
\* propagate records the context in effect before it as previous_context.
process_local(active, local, options) ==
    LET opt == [options EXCEPT !.propagate = Propagate(local, options)]
        start == IF ~opt.propagate /\ active.previous_context = <<>>
                 THEN set_previous_context(active, active)
                 ELSE active
        elements == IF local.kind = "array" THEN local.items ELSE <<local>>
    IN  process_sequence(Ok(start), elements, 1, opt)

(***************************************************************************)
(* Expansion options and key expansion policies                            *)
(* (src/expansion/mod.rs:32-108).                                          *)
(***************************************************************************)
Policies == {"Relaxed", "Standard", "Strict", "Strictest"}

Policy_default == "Standard"

\* A faulty is_strict that takes every policy but Relaxed for strict.
is_strict_but_relaxed(policy) == policy # "Relaxed"

\* A faulty is_strict that forgets the Strict variant.
is_strict_strictest_only(policy) == policy = "Strictest"

is_strict(policy) == policy \in {"Strict", "Strictest"}

Options_default ==
    [processing_mode |-> ProcessingMode_default,
     policy |-> Policy_default,
     ordered |-> FALSE]

\* impl From<Options> for ProcessingOptions
ProcessingOptions_from(options) ==
    [ProcessingOptions_default EXCEPT
        !.processing_mode = options.processing_mode]

(***************************************************************************)
(* expand_iri (spec 4.1), for a context whose IRI mappings are IRIs.       *)
(***************************************************************************)
expand_iri(active, value, document_relative, vocab) ==
    IF IsKeyword(value) THEN Keyword(value)
    ELSE IF Chars(value)[1] = "@" THEN Keyword("Unknown")
    ELSE IF get(active, value) # <<>> /\ get(active, value)[1].value # <<>>
    THEN Iri(get(active, value)[1].value[1])
    ELSE IF contains(value, ":")
    THEN LET cs == Chars(value)
             at == CHOOSE i \in DOMAIN cs :
                        cs[i] = ":" /\ \A j \in 1..(i - 1) : cs[j] # ":"
             prefix == SubSeq(cs, 1, at - 1)
             suffix == SubSeq(cs, at + 1, Len(cs))
             terms == {t \in DOMAIN active.definitions :
                        /\ Chars(t) = prefix
                        /\ active.definitions[t].prefix
                        /\ active.definitions[t].value # <<>>}
         IN  IF prefix = <<"_">> THEN Blank(value)
             ELSE IF Len(suffix) >= 2 /\ suffix[1] = "/" /\ suffix[2] = "/"
             THEN Iri(value)
             ELSE IF terms # {}
             THEN Iri(Concat(
                        active.definitions[CHOOSE t \in terms : TRUE].value[1],
                        FromChars(suffix)))
             ELSE IF IsScheme(prefix) THEN Iri(value)
             ELSE Invalid(value)
    ELSE IF vocab /\ active.vocabulary # <<>>
    THEN Iri(Concat(active.vocabulary[1], value))
    ELSE IF document_relative /\ active.base_iri # <<>>
    THEN Iri(Concat(active.base_iri[1], value))
    ELSE Invalid(value)

(***************************************************************************)
(* Entry: an object entry <<key, value>>, compared by its key              *)
(* (src/expansion/mod.rs:119-157), and the enumeration of the entries of   *)
(* an object (spec 4.5 step 4).                                            *)
(***************************************************************************)
\* The code point of a character.
Code(c) ==
    CASE c = "/" -> 47 [] c = "1" -> 49 [] c = ":" -> 58 [] c = "@" -> 64
      [] c = "P" -> 80 [] c = "_" -> 95
      [] c = "a" -> 97 [] c = "b" -> 98 [] c = "c" -> 99 [] c = "d" -> 100
      [] c = "e" -> 101 [] c = "f" -> 102 [] c = "h" -> 104 [] c = "i" -> 105
      [] c = "m" -> 109 [] c = "n" -> 110 [] c = "o" -> 111 [] c = "p" -> 112
      [] c = "r" -> 114 [] c = "s" -> 115 [] c = "t" -> 116 [] c = "x" -> 120
      [] c = "y" -> 121

RECURSIVE chars_cmp(_, _)
\* Lexicographic comparison of two character sequences.
chars_cmp(as, bs) ==
    IF as = <<>> /\ bs = <<>> THEN "Equal"
    ELSE IF as = <<>> THEN "Less"
    ELSE IF bs = <<>> THEN "Greater"
    ELSE IF Code(Head(as)) < Code(Head(bs)) THEN "Less"
    ELSE IF Code(Head(as)) > Code(Head(bs)) THEN "Greater"
    ELSE chars_cmp(Tail(as), Tail(bs))

\* Ord for str
str_cmp(a, b) == chars_cmp(Chars(a), Chars(b))

\* PartialEq for Entry
Entry_eq(self, other) == self[1] = other[1]

\* A faulty Entry::cmp that compares the key of self with itself.
Entry_cmp_self(self, other) == str_cmp(self[1], self[1])

\* Ord for Entry
Entry_cmp(self, other) == str_cmp(self[1], other[1])

RECURSIVE sort_insert(_, _)
\* The sorted list with the entry after the entries that are not greater.
sort_insert(sorted, entry) ==
    IF sorted = <<>> THEN <<entry>>
    ELSE IF Entry_cmp(Head(sorted), entry) = "Greater"
    THEN <<entry>> \o sorted
    ELSE <<Head(sorted)>> \o sort_insert(Tail(sorted), entry)

RECURSIVE sort(_)
\* slice::sort, a stable sort by Entry::cmp.
sort(entries) ==
    IF entries = <<>> THEN <<>>
    ELSE sort_insert(sort(SubSeq(entries, 1, Len(entries) - 1)),
                     entries[Len(entries)])

\* The entries in the order they are processed in: sorted when
\* options.ordered, else as the object iterates over them.
enumerate(entries, options) ==
    IF options.ordered THEN sort(entries) ELSE entries

(***************************************************************************)
(* The element expander and the object-entry dispatcher (spec 4.4, 4.5),   *)
(* for documents made of scalars, arrays and node objects with the         *)
(* keywords @context, @id and @type.                                       *)
(***************************************************************************)
\* What becomes of an entry whose key expands to Invalid(raw), as the
\* Policy variants document it: "keep", "drop" or "error".
on_invalid_key(policy, raw) ==
    IF policy = "Relaxed" THEN "keep"
    ELSE IF is_strict(policy) /\ (policy = "Strictest" \/ ~contains(raw, ":"))
    THEN "error"
    ELSE IF contains(raw, ":") THEN "keep"
    ELSE "drop"

\* The node under construction.
EmptyNode == NodeObject(<<>>, {}, EmptyMap, <<>>)

\* Node::insert_all: the values are appended to those of the property.
insert_all(node, prop, values) ==
    IF values = <<>> THEN node
    ELSE [node EXCEPT !.props =
            [r \in DOMAIN node.props \cup {prop} |->
                IF r \in DOMAIN node.props /\ r = prop
                THEN node.props[r] \o values
                ELSE IF r = prop THEN values
                ELSE node.props[r]]]

\* Step 3 of the dispatcher: the scoped context of the `@type` value is
\* processed without propagation.
type_scoped_context(active, entries, options) ==
    LET ty == ObjGet(entries, "@type")
        def == IF ty # <<>> /\ ty[1].kind = "string"
               THEN get(active, ty[1].s) ELSE <<>>
    IN  IF def = <<>> \/ def[1].context = <<>> THEN Ok(active)
        ELSE process_local(active, def[1].context[1],
                without_propagation(ProcessingOptions_from(options)))

\* Step 2 of the dispatcher: the scoped context of the active property is
\* processed with override.
property_scoped_context(active, active_property, options) ==
    LET def == IF active_property = <<>> THEN <<>>
               ELSE get(active, active_property[1])
    IN  IF def = <<>> \/ def[1].context = <<>> THEN Ok(active)
        ELSE process_local(active, def[1].context[1],
                with_override(ProcessingOptions_from(options)))

\* Step 1 of the dispatcher: the `@context` entry of the object.
embedded_context(active, entries, options) ==
    IF ObjGet(entries, "@context") = <<>> THEN Ok(active)
    ELSE process_local(active, ObjGet(entries, "@context")[1],
                       ProcessingOptions_from(options))

\* A context that does not propagate is in effect for the object it was
\* pushed for only: a nested node object starts from the previous context.
entering_context(active, entries) ==
    IF /\ active.previous_context # <<>>
       /\ ObjGet(entries, "@value") = <<>>
       /\ ~(Len(entries) = 1 /\ entries[1][1] = "@id")
    THEN active.previous_context[1]
    ELSE active

RECURSIVE expand_element(_, _, _, _)
RECURSIVE expand_entries(_, _, _, _, _)
RECURSIVE expand_array(_, _, _, _, _)

\* Step 4 of the dispatcher, from the k-th enumerated entry on: `res` is
\* the node so far, or the error that aborted the expansion.
expand_entries(active, entries, k, res, options) ==
    IF ~res.ok \/ k > Len(entries) THEN res
    ELSE LET key == entries[k][1]
             value == entries[k][2]
             ref == expand_iri(active, key, FALSE, TRUE)
             fate == IF ref.ref = "Invalid"
                     THEN on_invalid_key(options.policy, key)
                     ELSE "keep"
             values == expand_element(active, <<key>>, value, options)
             next ==
                CASE ref = Keyword("@context") -> res
                  [] ref = Keyword("@id") ->
                        IF value.kind = "string"
                        THEN Ok([res.val EXCEPT !.id =
                                <<expand_iri(active, value.s, TRUE, FALSE)>>])
                        ELSE Err("InvalidIdValue")
                  [] ref = Keyword("@type") ->
                        IF value.kind = "string"
                        THEN Ok([res.val EXCEPT !.types =
                                @ \cup {expand_iri(active, value.s, TRUE, TRUE)}])
                        ELSE Err("InvalidTypeValue")
                  [] ref = Keyword("Unknown") -> res
                  [] ref.ref \in {"Iri", "Blank", "Invalid"} ->
                        IF fate = "error" THEN Err("KeyExpansionFailed")
                        ELSE IF fate = "drop" THEN res
                        ELSE IF ~values.ok THEN values
                        ELSE Ok(insert_all(res.val, ref, values.val))
         IN  expand_entries(active, entries, k + 1, next, options)

\* Steps 1-3 and 5 of the dispatcher around the entries of a node object.
expand_node(active, active_property, entries, options) ==
    LET entered == entering_context(active, entries)
        embedded == embedded_context(entered, entries, options)
        scoped == IF ~embedded.ok THEN embedded
                  ELSE property_scoped_context(embedded.val, active_property,
                                               options)
        typed == IF ~scoped.ok THEN scoped
                 ELSE type_scoped_context(scoped.val, entries, options)
        node == IF ~typed.ok THEN typed
                ELSE expand_entries(typed.val, enumerate(entries, options),
                                    1, Ok(EmptyNode), options)
    IN  IF ~node.ok THEN node
        ELSE IF /\ active_property = <<>>
                /\ node.val.id # <<>>
                /\ node.val.types = {}
                /\ DOMAIN node.val.props = {}
        THEN Ok(<<>>)
        ELSE Ok(<<Indexed(node.val, <<>>)>>)

expand_array(active, active_property, items, k, options) ==
    IF k > Len(items) THEN Ok(<<>>)
    ELSE LET head == expand_element(active, active_property, items[k], options)
             tail == expand_array(active, active_property, items, k + 1,
                                  options)
         IN  IF ~head.ok THEN head
             ELSE IF ~tail.ok THEN tail
             ELSE Ok(head.val \o tail.val)

\* expand_element: null, scalar, array, object.
expand_element(active, active_property, element, options) ==
    IF element.kind = "null" THEN Ok(<<>>)
    ELSE IF element.kind \in {"boolean", "number", "string"}
    THEN IF active_property = <<>> \/ active_property = <<"@graph">>
         THEN Ok(<<>>)
         ELSE Ok(<<Indexed(ValueObject(element), <<>>)>>)
    ELSE IF element.kind = "array"
    THEN expand_array(active, active_property, element.items, 1, options)
    ELSE expand_node(active, active_property, element.entries, options)

\* expand(active_context, document, ..., options, warnings): expand_element
\* on the root with no active property, then the driver.
expand_document(active, document, options) ==
    expand(expand_element(active, <<>>, document, options))

(***************************************************************************)
(* The entry points Local::process_with and Local::process                 *)
(* (src/context/mod.rs:188-233), and the loader.  The loader is the only   *)
(* suspension point: a call whose local context is a string (a remote      *)
(* context) waits in `pending` until the loader returns.                   *)
(***************************************************************************)
ProcessingStack_new == <<>>

\* ProcessingStack::cycle: the IRI is being resolved already.
cycle(st, iri) == iri \in Range(st)

RemoteIris == {"A", "B", "C"}

\* The context of the remote documents that hold an object context.
RemoteObjectContext == Obj(<<<<"name", Str("http://r/name")>>>>)

\* The `@context` value of a loaded document, or a loader failure.
LoaderOutputs ==
    {Ok(Str(i)) : i \in RemoteIris}
    \cup {Ok(RemoteObjectContext), Err("LoadingRemoteContextFailed")}

\* process_full from the element `local` on, with `st` the stack before it:
\* the fields of the state after the step.  A string is checked against the
\* stack, pushed, and requested from the loader; anything else is processed
\* at once.
process_full(active, st, local, options) ==
    IF local.kind = "string"
    THEN IF cycle(st, local.s)
         THEN [processed |-> <<Err("ContextOverflow")>>, stack |-> st,
               pending |-> <<>>]
         ELSE [processed |-> <<>>, stack |-> Append(st, local.s),
               pending |-> <<[active |-> active, iri |-> local.s,
                              options |-> options]>>]
    ELSE [processed |-> <<process_local(active, local, options)>>,
          stack |-> st, pending |-> <<>>]

\* The caller goes on with the processed context when there is one.
Adopt(ctx, res) ==
    IF res # <<>> /\ res[1].ok THEN res[1].val ELSE ctx

\* The state after process_full returned or suspended.
Proceed(next) ==
    /\ processed' = next.processed
    /\ stack' = next.stack
    /\ pending' = next.pending
    /\ active_context' = Adopt(active_context, next.processed)

CallOf(entry, active, local, options) ==
    [entry |-> entry, active |-> active, local |-> local,
     options |-> options]

\* A faulty process_with that hands the stack of the previous call on.
ProcessWith_stale_stack(local, options) ==
    /\ pending = <<>>
    /\ call' = <<CallOf("process_with", active_context, local, options)>>
    /\ \E next \in {process_full(active_context, stack, local, options)} :
            Proceed(next)
    /\ UNCHANGED loader
    /\ UNCHANGED <<eqVars, driverVars, expandVars, modeVars,
                   orderVars, defineVars, setterVars>>

\* local.process_with(&active_context, loader, base_url, options)
ProcessWith(local, options) ==
    /\ pending = <<>>
    /\ call' = <<CallOf("process_with", active_context, local, options)>>
    /\ \E next \in {process_full(active_context, ProcessingStack_new, local,
                                 options)} :
            Proceed(next)
    /\ UNCHANGED loader
    /\ UNCHANGED <<eqVars, driverVars, expandVars, modeVars,
                   orderVars, defineVars, setterVars>>

\* local.process_with(&active_context, loader, base_url, options.into()),
\* the call made with expansion Options.
ProcessWithInto(local, options) ==
    /\ pending = <<>>
    /\ call' = <<[entry |-> "process_with", active |-> active_context,
                  local |-> local,
                  options |-> ProcessingOptions_from(options),
                  from |-> options]>>
    /\ \E next \in {process_full(active_context, ProcessingStack_new, local,
                                 ProcessingOptions_from(options))} :
            Proceed(next)
    /\ UNCHANGED loader
    /\ UNCHANGED <<eqVars, driverVars, expandVars, modeVars,
                   orderVars, defineVars, setterVars>>

\* local.process(loader, base_url): a default active context, an empty
\* stack, the default options.
Process(local) ==
    /\ pending = <<>>
    /\ call' = <<CallOf("process", Json_default, local,
                        ProcessingOptions_default)>>
    /\ \E next \in {process_full(Json_default, ProcessingStack_new, local,
                                 ProcessingOptions_default)} :
            /\ processed' = next.processed
            /\ stack' = next.stack
            /\ pending' = next.pending
            /\ active_context' = Adopt(Json_default, next.processed)
    /\ UNCHANGED loader
    /\ UNCHANGED <<eqVars, driverVars, expandVars, modeVars,
                   orderVars, defineVars, setterVars>>

\* The loader returns for the pending call: a failure ends it; the loaded
\* document's `@context` is processed with the stack of the call.
LoaderReturn ==
    /\ pending # <<>>
    /\ \E out \in {loader[pending[1].iri]} :
        IF ~out.ok
        THEN /\ processed' = <<out>>
             /\ pending' = <<>>
             /\ UNCHANGED <<stack, active_context>>
        ELSE \E next \in {process_full(pending[1].active, stack, out.val,
                                       pending[1].options)} :
                Proceed(next)
    /\ UNCHANGED <<loader, call>>
    /\ UNCHANGED <<eqVars, driverVars, expandVars, modeVars,
                   orderVars, defineVars, setterVars>>

(***************************************************************************)
(* The local contexts processed.                                           *)
(***************************************************************************)
ContextTerms == {"name", "knows"}

ContextIris == {"http://a/", "http://b/"}

ProtectedContext(t, i) == Obj(<<<<"@protected", Bool(TRUE)>>, <<t, Str(i)>>>>)

PlainContext(t, i) == Obj(<<<<t, Str(i)>>>>)

\* The object contexts: `@protected` or not, each defining one term.
ObjectContexts ==
    {ProtectedContext("name", i) : i \in ContextIris}
    \cup {PlainContext("name", i) : i \in ContextIris}
    \cup {ProtectedContext("knows", "http://a/"),
          PlainContext("knows", "http://b/"),
          Obj(<<<<"name", Obj(<<<<"@id", Str("http://b/")>>,
                                 <<"@protected", Bool(TRUE)>>>>)>>>>),
          Obj(<<<<"name", Null>>>>)}

\* The elements of the local context arrays.
ArrayContexts ==
    {Null, ProtectedContext("name", "http://a/"),
     PlainContext("name", "http://b/")}

LocalContexts ==
    {Null} \cup ObjectContexts
    \cup {Arr(cs) : cs \in UNION {[1..n -> ArrayContexts] : n \in 2..MaxContexts}}

OptionsUsed ==
    {ProcessingOptions_default, with_override(ProcessingOptions_default)}

ContextIdle ==
    /\ active_context = Json_default
    /\ call = <<>>
    /\ processed = <<>>
    /\ stack = ProcessingStack_new
    /\ pending = <<>>
    /\ loader = [i \in RemoteIris |-> Err("LoadingRemoteContextFailed")]

\* The expansion Options a caller may hold.
ExpansionOptions ==
    {Options_default,
     [Options_default EXCEPT !.processing_mode = "JsonLd1_0"],
     [processing_mode |-> "JsonLd1_0", policy |-> "Relaxed",
      ordered |-> TRUE],
     [processing_mode |-> "JsonLd1_1", policy |-> "Strictest",
      ordered |-> TRUE]}

ProtectedNext ==
    \/ \E local \in LocalContexts, options \in OptionsUsed :
            ProcessWith(local, options)
    \/ \E local \in LocalContexts, options \in ExpansionOptions :
            ProcessWithInto(local, options)
    \/ \E local \in LocalContexts : Process(local)

RemoteInit ==
    /\ active_context = Json_default
    /\ call = <<>>
    /\ processed = <<>>
    /\ stack = ProcessingStack_new
    /\ pending = <<>>
    /\ loader \in [RemoteIris -> LoaderOutputs]

RemoteNext ==
    \/ \E i \in RemoteIris, options \in OptionsUsed :
            ProcessWith(Str(i), options)
    \/ \E i \in RemoteIris : Process(Str(i))
    \/ LoaderReturn

(***************************************************************************)
(* Expansion: the contexts and documents it is run on, and the call of     *)
(* expand under each policy.                                               *)
(***************************************************************************)
\* The scoped context of the term Person binds name.
PersonTerm ==
    <<"Person", Obj(<< <<"@id", Str("http://p/Person")>>,
                       <<"@context",
                         Obj(<< <<"name", Str("http://p/name")>> >>)>> >>)>>

PersonContext ==
    Obj(<< PersonTerm, <<"other", Str("http://p/other")>> >>)

VocabContext ==
    Obj(<< <<"@vocab", Str("http://v/")>>, PersonTerm,
           <<"other", Str("http://p/other")>> >>)

\* name is bound outside the scoped context too, and other has a scoped
\* context of its own.
OuterNameContext ==
    Obj(<< PersonTerm,
           <<"name", Str("http://q/name")>>,
           <<"other", Obj(<< <<"@id", Str("http://p/other")>>,
                             <<"@context",
                               Obj(<< <<"foo", Str("http://p/foo")>> >>)>> >>)>> >>)

StartContexts ==
    {Json_default}
    \cup {process_local(Json_default, local, ProcessingOptions_default).val :
            local \in {PersonContext, VocabContext, OuterNameContext}}

NestedObjects ==
    {Obj(<< <<"name", Str("y")>> >>),
     Obj(<< <<"foo", Str("z")>> >>),
     Obj(<< <<"@id", Num(42)>> >>),
     Obj(<< <<"@id", Str("http://e/1")>> >>),
     Obj(<< <<"@type", Str("Person")>>, <<"name", Str("y")>> >>)}

\* The values a root entry may have, by key, in the order of the entries.
RootKeys == <<"@type", "@id", "name", "foo", ":bad", "ex:p", "other">>

RootValues(key) ==
    CASE key = "@type" -> {Str("Person")}
      [] key = "@id" -> {Str("http://e/1"), Num(42)}
      [] key = "foo" ->
            {Str("x"), Obj(<< <<"@id", Num(42)>> >>),
             Obj(<< <<"name", Str("y")>> >>)}
      [] key = "other" ->
            NestedObjects
            \cup {Arr(<<Obj(<< <<"name", Str("y")>> >>), Str("z")>>)}
      [] key \in {"name", ":bad", "ex:p"} -> {Str("x")}

RECURSIVE RootEntries(_, _)
\* The entry lists over the keys from the k-th on, with at most n entries.
RootEntries(k, n) ==
    IF k > Len(RootKeys) THEN {<<>>}
    ELSE RootEntries(k + 1, n)
         \cup (IF n = 0 THEN {}
               ELSE {<< <<RootKeys[k], v>> >> \o rest :
                        v \in RootValues(RootKeys[k]),
                        rest \in RootEntries(k + 1, n - 1)})

Documents == {Obj(es) : es \in RootEntries(1, MaxEntries)}

ExpandIdle ==
    /\ input_document = Null
    /\ start_context = Json_default
    /\ outcome = [p \in Policies |-> <<>>]

ExpandInit ==
    /\ input_document \in Documents
    /\ start_context \in StartContexts
    /\ outcome = [p \in Policies |-> <<>>]

\* Options { policy, ..Default::default() }
Options_with(policy) == [Options_default EXCEPT !.policy = policy]

\* expand(&context, &document, ..., Options { policy, .. }, warnings)
Expand(policy) ==
    /\ outcome[policy] = <<>>
    /\ outcome' = [outcome EXCEPT ![policy] =
            <<expand_document(start_context, input_document,
                              Options_with(policy))>>]
    /\ UNCHANGED <<input_document, start_context>>
    /\ UNCHANGED <<eqVars, driverVars, contextVars, modeVars,
                   orderVars, defineVars, setterVars>>

ExpandNext == \E policy \in Policies : Expand(policy)

(***************************************************************************)
(* ProcessingMode: names, parsing and display (src/mode.rs).               *)
(***************************************************************************)
\* A faulty as_str that gives both modes the name of the default one.
as_str_default_name(m) == "json-ld-1.1"

\* ProcessingMode::as_str
as_str(m) ==
    CASE m = "JsonLd1_0" -> "json-ld-1.0"
      [] m = "JsonLd1_1" -> "json-ld-1.1"

\* TryFrom<&str> for ProcessingMode; the error is the unit value.
try_from(str) ==
    CASE str = "json-ld-1.0" -> Ok("JsonLd1_0")
      [] str = "json-ld-1.1" -> Ok("JsonLd1_1")
      [] OTHER -> Err(<<>>)

\* Display for ProcessingMode: write!(f, "{}", self.as_str()) appends the
\* name to what the formatter f holds.
fmt(m, f) == Append(f, as_str(m))

\* The names handed to try_from.
ModeNames ==
    {"json-ld-1.0", "json-ld-1.1", "", "json-ld-1.2", "json-ld-1",
     "JSON-LD-1.0", "JsonLd1_0", "JsonLd1_1", "1.1", "json-ld-1.1 "}

ModeIdle ==
    /\ mode = ProcessingMode_default
    /\ name = ""
    /\ mode_name = <<>>
    /\ from_name = <<>>
    /\ displayed = <<>>
    /\ reparsed = <<>>

ModeInit ==
    /\ mode \in ProcessingModes
    /\ name \in ModeNames
    /\ mode_name = <<>>
    /\ from_name = <<>>
    /\ displayed = <<>>
    /\ reparsed = <<>>

\* mode.as_str()
AsStr ==
    /\ mode_name = <<>>
    /\ mode_name' = <<as_str(mode)>>
    /\ UNCHANGED <<mode, name, from_name, displayed, reparsed>>
    /\ UNCHANGED <<eqVars, driverVars, contextVars, expandVars,
                   orderVars, defineVars, setterVars>>

\* ProcessingMode::try_from(name)
TryFrom ==
    /\ from_name = <<>>
    /\ from_name' = <<try_from(name)>>
    /\ UNCHANGED <<mode, name, mode_name, displayed, reparsed>>
    /\ UNCHANGED <<eqVars, driverVars, contextVars, expandVars,
                   orderVars, defineVars, setterVars>>

\* mode.to_string(): Display on an empty formatter.
Display ==
    /\ displayed = <<>>
    /\ displayed' = <<fmt(mode, <<>>)>>
    /\ UNCHANGED <<mode, name, mode_name, from_name, reparsed>>
    /\ UNCHANGED <<eqVars, driverVars, contextVars, expandVars,
                   orderVars, defineVars, setterVars>>

\* ProcessingMode::try_from(mode.as_str())
TryFromName ==
    /\ mode_name # <<>>
    /\ reparsed = <<>>
    /\ reparsed' = <<try_from(mode_name[1])>>
    /\ UNCHANGED <<mode, name, mode_name, from_name, displayed>>
    /\ UNCHANGED <<eqVars, driverVars, contextVars, expandVars,
                   orderVars, defineVars, setterVars>>

ModeNext == AsStr \/ TryFrom \/ Display \/ TryFromName

(***************************************************************************)
(* Two runs of the expansion on one object.  The object is a map: the      *)
(* order in which a run iterates over its entries is not fixed.            *)
(***************************************************************************)
\* name and foo denote the same property, so that the order of its values
\* shows the order of the entries.
OrderContext ==
    process_local(Json_default,
                  Obj(<< <<"name", Str("http://p/name")>>,
                         <<"foo", Str("http://p/name")>> >>),
                  ProcessingOptions_default).val

OrderKeys == {"name", "foo", "@id", "b", "bad"}

OrderValue(key) == IF key = "@id" THEN Num(42) ELSE Str(key)

\* The orders in which the entries with the given keys may come.
Iterations(keys) ==
    {es \in [1..Cardinality(keys) -> {<<k, OrderValue(k)>> : k \in keys}] :
        \A i, j \in 1..Cardinality(keys) : i # j => es[i] # es[j]}

OrderOptions ==
    {[Options_default EXCEPT !.ordered = TRUE, !.policy = "Relaxed"],
     [Options_default EXCEPT !.ordered = TRUE, !.policy = "Strict"],
     [Options_default EXCEPT !.policy = "Relaxed"]}

OrderIdle ==
    /\ iteration = <<<<>>, <<>>>>
    /\ run_options = Options_default
    /\ runs = <<<<>>, <<>>>>

OrderInit ==
    /\ \E keys \in SUBSET OrderKeys :
        /\ Cardinality(keys) <= MaxKeys
        /\ iteration \in Iterations(keys) \X Iterations(keys)
    /\ run_options \in OrderOptions
    /\ runs = <<<<>>, <<>>>>

\* One run of expand on the object.
Run(i) ==
    /\ runs[i] = <<>>
    /\ runs' = [runs EXCEPT ![i] =
            <<[enumerated |-> enumerate(iteration[i], run_options),
               result |-> expand_document(OrderContext, Obj(iteration[i]),
                                          run_options)]>>]
    /\ UNCHANGED <<iteration, run_options>>
    /\ UNCHANGED <<eqVars, driverVars, contextVars, expandVars,
                   modeVars, defineVars, setterVars>>

OrderNext == \E i \in {1, 2} : Run(i)

(***************************************************************************)
(* Create Term Definition with forward references (spec 4.2, 4.1 rule 3,   *)
(* 4.3 step 8), one step at a time: the context processor requests every   *)
(* term of the local context; a term whose `@id` is another term of the    *)
(* local context that is not finished requests that term first.            *)
(***************************************************************************)
DefinedTerms == {"a", "b", "c"}

AbsoluteIris == {"http://x/"}

\* What an `@id` may hold: a term, an absolute IRI, or an undefined name.
IdValues == DefinedTerms \cup AbsoluteIris \cup {"zz"}

\* A faulty request that takes a term in progress for a finished one.
request_in_progress_returns(defd, t) ==
    CASE defd[t] = "NotStarted" -> "begin"
      [] defd[t] = "InProgress" -> "return"
      [] defd[t] = "Done" -> "return"

\* The state machine of a term: what a request for it does.
request(defd, t) ==
    CASE defd[t] = "NotStarted" -> "begin"
      [] defd[t] = "Done" -> "return"
      [] defd[t] = "InProgress" -> "cyclic"

\* create_term_definition(t), up to step 3.
Invoke(t) ==
    \E todo \in {request(defined, t)} :
        CASE todo = "return" -> UNCHANGED <<defined, creating, creation>>
          [] todo = "cyclic" ->
                /\ creation' = <<Err("CyclicIriMapping")>>
                /\ UNCHANGED <<defined, creating>>
          [] todo = "begin" ->
                /\ defined' = [defined EXCEPT ![t] = "InProgress"]
                /\ creating' = Append(creating, t)
                /\ UNCHANGED creation

\* The term whose creation is innermost, and the value of its `@id`.
Innermost == creating[Len(creating)]

\* expand_iri rule 3 applies to the `@id` of the innermost term.
ForwardReferenced(t) ==
    /\ local_terms[t] \in DOMAIN local_terms
    /\ defined[local_terms[t]] # "Done"

SeqsOf(S) ==
    {q \in [1..Cardinality(S) -> S] :
        \A i, j \in 1..Cardinality(S) : i # j => q[i] # q[j]}

DefineIdle ==
    /\ local_terms = EmptyMap
    /\ requests = <<>>
    /\ defined = [t \in DefinedTerms |-> "NotStarted"]
    /\ creating = <<>>
    /\ term_definitions = EmptyMap
    /\ creation = <<>>

DefineInit ==
    /\ \E D \in SUBSET DefinedTerms :
        /\ local_terms \in [D -> IdValues]
        /\ requests \in SeqsOf(D)
    /\ defined = [t \in DefinedTerms |-> "NotStarted"]
    /\ creating = <<>>
    /\ term_definitions = EmptyMap
    /\ creation = <<>>

\* Context processing step 8: the next key of the local context.
RequestTerm ==
    /\ creation = <<>>
    /\ creating = <<>>
    /\ requests # <<>>
    /\ requests' = Tail(requests)
    /\ Invoke(Head(requests))
    /\ UNCHANGED <<local_terms, term_definitions>>
    /\ UNCHANGED <<eqVars, driverVars, contextVars, expandVars, modeVars,
                   orderVars, setterVars>>

\* Step 7, expand_iri rule 3: the `@id` is a term of the local context that
\* is not finished; its definition is requested.
ForwardReference ==
    /\ creation = <<>>
    /\ creating # <<>>
    /\ ForwardReferenced(Innermost)
    /\ Invoke(local_terms[Innermost])
    /\ UNCHANGED <<local_terms, requests, term_definitions>>
    /\ UNCHANGED <<eqVars, driverVars, contextVars, expandVars, modeVars,
                   orderVars, setterVars>>

\* Steps 7 and 11: the `@id` resolves to the mapping of a finished term or
\* is an absolute IRI, the definition is committed and the term is Done;
\* an `@id` that resolves to nothing is an error.
Commit ==
    /\ creation = <<>>
    /\ creating # <<>>
    /\ ~ForwardReferenced(Innermost)
    /\ LET v == local_terms[Innermost]
       IN  IF v \in DOMAIN term_definitions \/ v \in AbsoluteIris
           THEN /\ term_definitions' =
                    [t \in DOMAIN term_definitions \cup {Innermost} |->
                        IF t = Innermost
                        THEN IF v \in AbsoluteIris THEN v
                             ELSE term_definitions[v]
                        ELSE term_definitions[t]]
                /\ defined' = [defined EXCEPT ![Innermost] = "Done"]
                /\ creating' = SubSeq(creating, 1, Len(creating) - 1)
                /\ UNCHANGED creation
           ELSE /\ creation' = <<Err("InvalidIriMapping")>>
                /\ UNCHANGED <<term_definitions, defined, creating>>
    /\ UNCHANGED <<local_terms, requests>>
    /\ UNCHANGED <<eqVars, driverVars, contextVars, expandVars, modeVars,
                   orderVars, setterVars>>

\* Every key has been requested.
Finish ==
    /\ creation = <<>>
    /\ creating = <<>>
    /\ requests = <<>>
    /\ creation' = <<Ok(term_definitions)>>
    /\ UNCHANGED <<local_terms, requests, defined, creating, term_definitions>>
    /\ UNCHANGED <<eqVars, driverVars, contextVars, expandVars, modeVars,
                   orderVars, setterVars>>

DefineNext == RequestTerm \/ ForwardReference \/ Commit \/ Finish

(***************************************************************************)
(* A Json context under its setters (src/context/mod.rs:411-423, 495-532). *)
(***************************************************************************)
BaseIris == {<<>>, <<"http://a/">>, <<"http://b/">>}

SetterDefinitions ==
    {<<>>,
     <<TermDefinition(<<"http://a/">>, FALSE, <<>>, FALSE)>>,
     <<TermDefinition(<<"http://b/">>, TRUE, <<>>, FALSE)>>}

PreviousContexts == {Json_default, Json_new(<<"http://b/">>)}

SetterIdle ==
    /\ json = Json_default
    /\ created_with = <<>>
    /\ setter = <<>>

\* Json::new(base_iri)
SetterInit ==
    /\ created_with \in BaseIris
    /\ json = Json_new(created_with)
    /\ setter = <<>>

\* The call of one setter on the context.
Called(setter_name, arg, after) ==
    /\ json' = after
    /\ setter' = <<[name |-> setter_name, arg |-> arg]>>
    /\ UNCHANGED created_with
    /\ UNCHANGED <<eqVars, driverVars, contextVars, expandVars, modeVars,
                   orderVars, defineVars>>

Set(term, definition) ==
    Called("set", <<term, definition>>, set(json, term, definition))

SetBaseIri(iri) == Called("set_base_iri", iri, set_base_iri(json, iri))

SetVocabulary(vocab) ==
    Called("set_vocabulary", vocab, set_vocabulary(json, vocab))

SetDefaultLanguage(lang) ==
    Called("set_default_language", lang, set_default_language(json, lang))

SetDefaultBaseDirection(dir) ==
    Called("set_default_base_direction", dir,
           set_default_base_direction(json, dir))

SetPreviousContext(previous) ==
    Called("set_previous_context", previous,
           set_previous_context(json, previous))

SetterNext ==
    \/ \E definition \in SetterDefinitions : Set("name", definition)
    \/ \E iri \in BaseIris : SetBaseIri(iri)
    \/ \E vocab \in {<<>>, <<"http://v/">>} : SetVocabulary(vocab)
    \/ \E lang \in {<<>>, <<"en">>} : SetDefaultLanguage(lang)
    \/ \E dir \in {<<>>, <<"Ltr">>} : SetDefaultBaseDirection(dir)
    \/ \E previous \in PreviousContexts : SetPreviousContext(previous)

(***************************************************************************)
(* The specifications.                                                     *)
(***************************************************************************)
InitEq ==
    /\ EqInit
    /\ DriverIdle
    /\ ContextIdle
    /\ ExpandIdle
    /\ ModeIdle
    /\ OrderIdle
    /\ DefineIdle
    /\ SetterIdle

SpecEq == InitEq /\ [][EqNext]_vars

InitDriver ==
    /\ DriverInit
    /\ EqIdle
    /\ ContextIdle
    /\ ExpandIdle
    /\ ModeIdle
    /\ OrderIdle
    /\ DefineIdle
    /\ SetterIdle

SpecDriver == InitDriver /\ [][DriverNext]_vars

InitProtected ==
    /\ ContextIdle
    /\ EqIdle
    /\ DriverIdle
    /\ ExpandIdle
    /\ ModeIdle
    /\ OrderIdle
    /\ DefineIdle
    /\ SetterIdle

SpecProtected == InitProtected /\ [][ProtectedNext]_vars

InitRemote ==
    /\ RemoteInit
    /\ EqIdle
    /\ DriverIdle
    /\ ExpandIdle
    /\ ModeIdle
    /\ OrderIdle
    /\ DefineIdle
    /\ SetterIdle

SpecRemote == InitRemote /\ [][RemoteNext]_vars

InitExpand ==
    /\ ExpandInit
    /\ EqIdle
    /\ DriverIdle
    /\ ContextIdle
    /\ ModeIdle
    /\ OrderIdle
    /\ DefineIdle
    /\ SetterIdle

SpecExpand == InitExpand /\ [][ExpandNext]_vars

InitMode ==
    /\ ModeInit
    /\ EqIdle
    /\ DriverIdle
    /\ ContextIdle
    /\ ExpandIdle
    /\ OrderIdle
    /\ DefineIdle
    /\ SetterIdle

SpecMode == InitMode /\ [][ModeNext]_vars

InitOrder ==
    /\ OrderInit
    /\ EqIdle
    /\ DriverIdle
    /\ ContextIdle
    /\ ExpandIdle
    /\ ModeIdle
    /\ DefineIdle
    /\ SetterIdle

SpecOrder == InitOrder /\ [][OrderNext]_vars

InitDefine ==
    /\ DefineInit
    /\ EqIdle
    /\ DriverIdle
    /\ ContextIdle
    /\ ExpandIdle
    /\ ModeIdle
    /\ OrderIdle
    /\ SetterIdle

SpecDefine == InitDefine /\ [][DefineNext]_vars

\* The algorithm runs to its end: a step that can be taken is taken.
SpecDefineFair == SpecDefine /\ WF_vars(DefineNext)

InitSetter ==
    /\ SetterInit
    /\ EqIdle
    /\ DriverIdle
    /\ ContextIdle
    /\ ExpandIdle
    /\ ModeIdle
    /\ OrderIdle
    /\ DefineIdle

SpecSetter == InitSetter /\ [][SetterNext]_vars

\* The deferred computation is polled until it is ready: a pending call
\* gets the loader's answer.
SpecRemoteFair == SpecRemote /\ WF_vars(LoaderReturn)

(***************************************************************************)
(* Claims about json_ld_eq.                                                *)
(***************************************************************************)
\* The one-to-one pairings of 1..n with 1..n.
Pairings(n) ==
    {p \in [1..n -> 1..n] : \A i, j \in 1..n : i # j => p[i] # p[j]}

IsArray(v) == v.kind = "array"

\* The `@list` array of an object, as <<array>>, or <<>> when the object has
\* no `@list` key or its value is no array.
ListOf(v) ==
    IF v.kind # "object" THEN <<>>
    ELSE LET got == ObjGet(v.entries, "@list")
         IN  IF got # <<>> /\ got[1].kind = "array" THEN <<got[1].items>>
             ELSE <<>>

(* C3: json_ld_eq ignores set ordering.  For two arrays a and b (compared  *)
(* as arrays, not as the value of an `@list` key) json_ld_eq(a, b) is true *)
(* exactly when they have the same length and some one-to-one pairing of   *)
(* the items of a with the items of b pairs only json_ld_eq items; and     *)
(* json_ld_eq(a, b) is true whenever b is a permutation of a.              *)
C3_SetOrderIgnored ==
    (eq # <<>> /\ IsArray(arg_a) /\ IsArray(arg_b)) =>
        LET as == arg_a.items
            bs == arg_b.items
        IN  /\ eq[1] = (/\ Len(as) = Len(bs)
                        /\ \E p \in Pairings(Len(as)) :
                            \A i \in DOMAIN as : json_ld_eq(as[i], bs[p[i]]))
            /\ (/\ Len(as) = Len(bs)
                /\ \E p \in Pairings(Len(as)) :
                    \A i \in DOMAIN as : bs[i] = as[p[i]])
               => eq[1] = TRUE

\* Two arrays of the longest length, in a different order, found equal.
C3_Witness ==
    /\ eq = <<TRUE>>
    /\ IsArray(arg_a) /\ IsArray(arg_b)
    /\ Len(arg_a.items) = MaxLen
    /\ arg_a # arg_b
    /\ \E i \in DOMAIN arg_a.items : ~json_ld_eq(arg_a.items[i], arg_b.items[i])

SizeOf(x) ==
    IF x.kind = "array" THEN Len(x.items)
    ELSE IF x.kind = "object" THEN Len(x.entries)
    ELSE 0

\* C16: json_ld_eq is reflexive, symmetric and transitive on values whose
\* objects have unique keys, and two values of different kinds, or arrays
\* or objects of different lengths, are never equal.
C16_EquivalenceRelation ==
    /\ json_ld_eq(arg_a, arg_a)
    /\ eq # <<>> => eq[1] = json_ld_eq(arg_b, arg_a)
    /\ eq = <<TRUE>> =>
        /\ \A c \in EqValues : json_ld_eq(arg_b, c) => json_ld_eq(arg_a, c)
        /\ arg_a.kind = arg_b.kind
        /\ SizeOf(arg_a) = SizeOf(arg_b)

\* Two different values were found equal, and a third one equals both.
C16_Witness ==
    /\ eq = <<TRUE>>
    /\ arg_a # arg_b
    /\ \E c \in EqValues \ {arg_a, arg_b} :
            json_ld_eq(arg_b, c) /\ json_ld_eq(arg_a, c)

(***************************************************************************)
(* Claims about the top-level driver.                                      *)
(***************************************************************************)
IsValue(item) == item.inner.type = "Value"

\* The sole item of the expansion is a default (unnamed) graph.
SoleDefaultGraph ==
    /\ expanded.ok
    /\ Len(expanded.val) = 1
    /\ expanded.val[1].inner.type = "Node"
    /\ expanded.val[1].inner.graph # <<>>
    /\ expanded.val[1].inner.id = <<>>
    /\ expanded.val[1].inner.types = {}
    /\ DOMAIN expanded.val[1].inner.props = {}

(* C1: whatever expand_element returned, the set expand returns holds no   *)
(* Value object, be it the filtered items (several items, or one item that *)
(* is no default graph) or the member set of an unwrapped default graph.   *)
C1_NoValueAtTopLevel ==
    (result # <<>> /\ result[1].ok) =>
        \A o \in result[1].val : ~IsValue(o)

\* expand returned after expand_element produced a Value object, at the top
\* level or under the `@graph` of a sole default graph.
C1_Witness ==
    /\ result # <<>> /\ result[1].ok
    /\ expanded.ok
    /\ \E i \in DOMAIN expanded.val : IsValue(expanded.val[i])
    /\ result[1].val # {}

(* C2: when expand_element yields exactly one item and it is a default     *)
(* graph, expand returns the graph's member set; for any other length, or  *)
(* a sole item that is no default graph, nothing is unwrapped and the      *)
(* result is the items themselves minus the Value objects.                 *)
C2_UnwrapSoleDefaultGraph ==
    (result # <<>> /\ expanded.ok) =>
        /\ result[1].ok
        /\ IF SoleDefaultGraph
           THEN result[1].val = expanded.val[1].inner.graph[1]
           ELSE result[1].val =
                    {expanded.val[i] : i \in DOMAIN expanded.val}
                        \ {o \in Range(expanded.val) : IsValue(o)}

\* A sole default graph with members was unwrapped.
C2_Witness ==
    /\ result # <<>>
    /\ SoleDefaultGraph
    /\ result[1].ok
    /\ result[1].val = expanded.val[1].inner.graph[1]
    /\ Cardinality(result[1].val) = MaxMembers

(* C10: there is no partial result.  When expand_element raised an error,  *)
(* expand returns that error and no set (no unwrapping, no filtering), and *)
(* expand returns an error only then: the warnings collected never turn a  *)
(* successful expansion into an error.                                     *)
C10_NoPartialResult ==
    result # <<>> =>
        /\ ~expanded.ok => result[1] = Err(expanded.error)
        /\ expanded.ok => result[1].ok
        /\ result[1].ok => DOMAIN result[1] = {"ok", "val"}
        /\ ~result[1].ok => DOMAIN result[1] = {"ok", "error"}

\* A failed expansion returned its error, with a warning collected.
C10_Witness ==
    /\ result # <<>>
    /\ ~expanded.ok
    /\ result[1] = Err(expanded.error)
    /\ warnings # <<>>


(***************************************************************************)
(* Claims about context processing.                                        *)
(***************************************************************************)
\* The last call has returned.
Returned == call # <<>> /\ pending = <<>> /\ processed # <<>>

\* The last call processed a lone object context whose only term entry is
\* <<term, value>>, against a context in which the term is protected.
RedefinesProtected(term, value) ==
    /\ Returned
    /\ call[1].local.kind = "object"
    /\ \E k \in DOMAIN call[1].local.entries :
            call[1].local.entries[k] = <<term, value>>
    /\ term \in DOMAIN call[1].active.definitions
    /\ call[1].active.definitions[term].protected

\* The IRI mapping a local context entry asks for: <<>> for null.
AskedMapping(value) ==
    IF value.kind = "string" THEN <<value.s>>
    ELSE IF value.kind = "object" /\ ObjGet(value.entries, "@id")[1].kind = "string"
    THEN <<ObjGet(value.entries, "@id")[1].s>>
    ELSE <<>>

\* The entry asks for a protected definition.
AskedProtected(local, value) ==
    \/ ObjGet(local.entries, "@protected") = <<Bool(TRUE)>>
    \/ value.kind = "object" /\ ObjGet(value.entries, "@protected") = <<Bool(TRUE)>>

(* C5: protected term discipline.  When a term is protected in the active  *)
(* context and a local context processed with override_protected = false   *)
(* defines it with a definition that is not identical, processing fails    *)
(* with ProtectedTermRedefinition and the definition is not replaced (the  *)
(* caller's context is as before); an identical redefinition succeeds and  *)
(* keeps the definition; with override_protected = true any redefinition   *)
(* succeeds and is in effect.  Processing the array                        *)
(* [{"@protected": true, t: a}, {t: b}] without override fails the same    *)
(* way, and a successful call without override leaves every protected      *)
(* definition as it was.                                                   *)
C5_ProtectedDiscipline ==
    /\ \A term \in {"name", "knows"} :
       \A value \in {Str("http://a/"), Str("http://b/"), Null,
                     Obj(<<<<"@id", Str("http://b/")>>,
                           <<"@protected", Bool(TRUE)>>>>)} :
        RedefinesProtected(term, value) =>
            LET before == call[1].active.definitions[term]
                override == call[1].options.override_protected
            IN  /\ (~override /\ AskedMapping(value) # before.value) =>
                    /\ processed[1] = Err("ProtectedTermRedefinition")
                    /\ active_context = call[1].active
                    /\ active_context.definitions[term] = before
                /\ (/\ ~override
                    /\ AskedMapping(value) = before.value
                    /\ AskedProtected(call[1].local, value)) =>
                    /\ processed[1].ok
                    /\ processed[1].val.definitions[term] = before
                /\ override =>
                    /\ processed[1].ok
                    /\ processed[1].val.definitions[term].value =
                            AskedMapping(value)
                    /\ active_context = processed[1].val
    /\ (/\ Returned
        /\ ~call[1].options.override_protected
        /\ call[1].local = Arr(<<ProtectedContext("name", "http://a/"),
                                 PlainContext("name", "http://b/")>>)) =>
            processed[1] = Err("ProtectedTermRedefinition")
    /\ (Returned /\ ~call[1].options.override_protected /\ processed[1].ok) =>
        \A term \in DOMAIN call[1].active.definitions :
            call[1].active.definitions[term].protected =>
                /\ term \in DOMAIN processed[1].val.definitions
                /\ processed[1].val.definitions[term] =
                        call[1].active.definitions[term]

\* A protected term was redefined with another IRI, without override, and
\* the call failed.
C5_Witness ==
    /\ RedefinesProtected("name", Str("http://b/"))
    /\ ~call[1].options.override_protected
    /\ call[1].active.definitions["name"].value = <<"http://a/">>
    /\ processed[1] = Err("ProtectedTermRedefinition")
    /\ active_context.definitions["name"].value = <<"http://a/">>

\* Following the remote references from this IRI never leaves them: the
\* chain comes back to an IRI that is being resolved.
RECURSIVE LoopsBack(_, _)
LoopsBack(iri, seen) ==
    /\ loader[iri].ok
    /\ loader[iri].val.kind = "string"
    /\ \/ loader[iri].val.s \in seen \cup {iri}
       \/ LoopsBack(loader[iri].val.s, seen \cup {iri})

RemoteCall == call # <<>> /\ call[1].local.kind = "string"

(* C6: processing a remote context whose chain of remote references loops  *)
(* back to an IRI being resolved always ends, with ContextOverflow, and    *)
(* never with a processed context; the stack of IRIs being resolved starts *)
(* empty for every process / process_with call: while a call waits for the *)
(* loader the stack holds, without repetition, the IRIs followed from the  *)
(* call's own, and nothing older.                                          *)
C6_CycleOverflows ==
    /\ [](pending # <<>> =>
            /\ RemoteCall
            /\ stack[1] = call[1].local.s
            /\ stack[Len(stack)] = pending[1].iri
            /\ \A i, j \in DOMAIN stack : i # j => stack[i] # stack[j]
            /\ \A i \in 1..(Len(stack) - 1) :
                    loader[stack[i]] = Ok(Str(stack[i + 1])))
    /\ []((RemoteCall /\ pending = <<>> /\ LoopsBack(call[1].local.s, {})) =>
            processed = <<Err("ContextOverflow")>>)
    /\ [](pending # <<>> => <>(pending = <<>>))

\* A call on A, where A loads B and B loads A, ended with ContextOverflow.
C6_Witness ==
    /\ RemoteCall /\ pending = <<>>
    /\ call[1].local = Str("A")
    /\ loader["A"] = Ok(Str("B"))
    /\ loader["B"] = Ok(Str("A"))
    /\ processed = <<Err("ContextOverflow")>>
    /\ stack = <<"A", "B">>

\* The defaults as the documentation of Local::process states them.
StatedDefaultOptions ==
    [processing_mode |-> "JsonLd1_1",
     override_protected |-> FALSE,
     propagate |-> TRUE]

StatedEmptyContext ==
    [original_base_url |-> <<>>, base_iri |-> <<>>, vocabulary |-> <<>>,
     default_language |-> <<>>, default_base_direction |-> <<>>,
     previous_context |-> <<>>, definitions |-> EmptyMap]

C12_ModeNamesRoundTrip ==
    /\ reparsed # <<>> => reparsed = <<Ok(mode)>>
    /\ mode_name # <<>> =>
            mode_name = <<IF mode = "JsonLd1_0" THEN "json-ld-1.0"
                          ELSE "json-ld-1.1">>
    /\ (displayed # <<>> /\ mode_name # <<>>) => displayed = <<mode_name>>
    /\ from_name # <<>> =>
            /\ name = "json-ld-1.0" => from_name = <<Ok("JsonLd1_0")>>
            /\ name = "json-ld-1.1" => from_name = <<Ok("JsonLd1_1")>>
            /\ name \notin {"json-ld-1.0", "json-ld-1.1"} => ~from_name[1].ok

\* The name of JSON-LD 1.0 has been from_name back and displayed, and another
\* string has been refused.
C12_Witness ==
    /\ mode = "JsonLd1_0"
    /\ reparsed = <<Ok("JsonLd1_0")>>
    /\ displayed = <<<<"json-ld-1.0">>>>
    /\ from_name # <<>>
    /\ ~from_name[1].ok

(***************************************************************************)
(* Claims about the enumeration of entries.                                *)
(***************************************************************************)
BothRun == runs[1] # <<>> /\ runs[2] # <<>>

\* C13: with ordered = true the entries are enumerated in ascending
\* code-point order of their keys, whatever order the object iterates in,
\* so that two runs enumerate them in the same order and return the same
\* result, array orderings included; the ordering and the equality of
\* entries depend on the keys only, not on the values.
C13_OrderedDeterminism ==
    /\ \A i \in {1, 2} : (runs[i] # <<>> /\ run_options.ordered) =>
        LET es == runs[i][1].enumerated
        IN  /\ Range(es) = Range(iteration[i])
            /\ Len(es) = Len(iteration[i])
            /\ \A j, k \in DOMAIN es :
                    j < k => str_cmp(es[j][1], es[k][1]) = "Less"
    /\ (BothRun /\ run_options.ordered) => runs[1] = runs[2]
    /\ \A e \in Range(iteration[1]), f \in Range(iteration[2]) :
       \A v \in {Null, Num(42), Str("name")} :
            /\ Entry_eq(e, <<f[1], v>>) = (e[1] = f[1])
            /\ Entry_cmp(e, <<f[1], v>>) = str_cmp(e[1], f[1])
            /\ Entry_cmp(e, <<e[1], v>>) = "Equal"
            /\ e[1] # f[1] => Entry_cmp(e, f) # "Equal"

\* Two ordered runs that iterated over foo and name in opposite orders both
\* returned the values of the property in the order of the keys.
C13_Witness ==
    /\ run_options.ordered
    /\ BothRun
    /\ iteration[1] = << <<"name", Str("name")>>, <<"foo", Str("foo")>> >>
    /\ iteration[2] = << <<"foo", Str("foo")>>, <<"name", Str("name")>> >>
    /\ runs[1][1].result.ok
    /\ \E o \in runs[1][1].result.val :
            o.inner.props[Iri("http://p/name")]
                = <<Indexed(ValueObject(Str("foo")), <<>>),
                    Indexed(ValueObject(Str("name")), <<>>)>>

\* Without ordered, the two runs may differ.
C13_UnorderedDiffers ==
    /\ ~run_options.ordered
    /\ BothRun
    /\ runs[1][1].result # runs[2][1].result

(***************************************************************************)
(* Claims about the creation of term definitions.                          *)
(***************************************************************************)
RECURSIVE LeadsTo(_, _, _)
\* Following the `@id` values from term t leads to term u in at most n steps.
LeadsTo(t, u, n) ==
    /\ n > 0
    /\ t \in DOMAIN local_terms
    /\ \/ local_terms[t] = u
       \/ LeadsTo(local_terms[t], u, n - 1)

\* The IRI mapping of the term depends on itself.
DependsOnItself(t) == LeadsTo(t, t, Cardinality(DefinedTerms))

\* The innermost creation asks for a term that is in progress.
AsksInProgress ==
    /\ creation = <<>>
    /\ creating # <<>>
    /\ ForwardReferenced(Innermost)
    /\ defined[local_terms[Innermost]] = "InProgress"

\* C14: a term moves from not started to InProgress and from InProgress to
\* Done, when its definition is committed, and a Done term keeps its
\* definition; the terms in progress are those whose creation is under way;
\* a request for a term in progress fails with CyclicIriMapping, which
\* happens only to a term whose IRI mapping depends on itself, and no such
\* term is left when the creation succeeds; the creation always ends.
C14_TermStateMachine ==
    /\ [][\A t \in DefinedTerms :
            /\ defined[t] = "NotStarted" =>
                    defined'[t] \in {"NotStarted", "InProgress"}
            /\ defined[t] = "InProgress" =>
                    defined'[t] \in {"InProgress", "Done"}
            /\ defined[t] = "Done" =>
                    /\ defined'[t] = "Done"
                    /\ term_definitions'[t] = term_definitions[t]]_vars
    /\ [](\A t \in DefinedTerms :
            /\ defined[t] = "Done" <=> t \in DOMAIN term_definitions
            /\ defined[t] = "InProgress" <=> t \in Range(creating))
    /\ [][AsksInProgress => creation' = <<Err("CyclicIriMapping")>>]_vars
    /\ [](creation = <<Err("CyclicIriMapping")>> =>
            \E t \in Range(creating) : DependsOnItself(t))
    /\ []((creation # <<>> /\ creation[1].ok) =>
            /\ \A t \in DOMAIN local_terms :
                    defined[t] = "Done" /\ ~DependsOnItself(t)
            /\ creating = <<>>)
    /\ <>(creation # <<>>)

\* Two terms that refer to each other have been refused.
C14_Witness ==
    /\ creation = <<Err("CyclicIriMapping")>>
    /\ Len(creating) = 2
    /\ local_terms[creating[1]] = creating[2]
    /\ local_terms[creating[2]] = creating[1]

(***************************************************************************)
(* Claims about the Json context.                                          *)
(***************************************************************************)
JsonFields ==
    {"original_base_url", "base_iri", "vocabulary", "default_language",
     "default_base_direction", "previous_context", "definitions"}

\* The field a setter is for.
FieldOf(setter_name) ==
    CASE setter_name = "set" -> "definitions"
      [] setter_name = "set_base_iri" -> "base_iri"
      [] setter_name = "set_vocabulary" -> "vocabulary"
      [] setter_name = "set_default_language" -> "default_language"
      [] setter_name = "set_default_base_direction" ->
            "default_base_direction"
      [] setter_name = "set_previous_context" -> "previous_context"

\* C15: Json::new(b) has original_base_url = base_iri = b and nothing else;
\* whatever setters are called, original_base_url stays b; a setter leaves
\* every field but its own as it was, and its own field holds what it was
\* given (set inserts or removes the one term).
C15_OriginalBaseUrlFixed ==
    /\ [](json.original_base_url = created_with)
    /\ [](setter = <<>> =>
            json = [original_base_url |-> created_with,
                    base_iri |-> created_with,
                    vocabulary |-> <<>>,
                    default_language |-> <<>>,
                    default_base_direction |-> <<>>,
                    previous_context |-> <<>>,
                    definitions |-> EmptyMap])
    /\ [][/\ \A f \in JsonFields \ {FieldOf(setter'[1].name)} :
                json'[f] = json[f]
          /\ setter'[1].name \in {"set_base_iri", "set_vocabulary",
                                  "set_default_language",
                                  "set_default_base_direction"} =>
                json'[FieldOf(setter'[1].name)] = setter'[1].arg
          /\ setter'[1].name = "set_previous_context" =>
                json'.previous_context = <<setter'[1].arg>>
          /\ setter'[1].name = "set" =>
                /\ get(json', setter'[1].arg[1]) = setter'[1].arg[2]
                /\ \A t \in (DOMAIN json.definitions
                             \cup DOMAIN json'.definitions)
                            \ {setter'[1].arg[1]} :
                        get(json', t) = get(json, t)]_vars

\* A context created with http://a/ has another base IRI, a vocabulary and
\* a definition.
C15_Witness ==
    /\ created_with = <<"http://a/">>
    /\ json.original_base_url = <<"http://a/">>
    /\ json.base_iri = <<"http://b/">>
    /\ json.vocabulary # <<>>
    /\ json.previous_context # <<>>
    /\ DOMAIN json.definitions # {}

(***************************************************************************)
(* Claims about the expansion of a document under the policies.            *)
(***************************************************************************)
Done(policy) == outcome[policy] # <<>>

Succeeded(policy) == Done(policy) /\ outcome[policy][1].ok

Failed(policy, error) == Done(policy) /\ outcome[policy][1] = Err(error)

\* The nodes expand returned under the policy.
Nodes(policy) == {o.inner : o \in outcome[policy][1].val}

RootEntry(key) == ObjGet(input_document.entries, key)

RootIsObject == input_document.kind = "object"

\* The root object has `@type: Person` and Person has a scoped context.
TypedPerson ==
    /\ RootIsObject
    /\ RootEntry("@type") = <<Str("Person")>>
    /\ get(start_context, "Person") # <<>>

\* The context the entries of the root object are expanded in.
RootContext ==
    type_scoped_context(start_context, input_document.entries,
                        Options_default)

\* The root object has an entry `other` whose value is, or starts with, the
\* object {"name": "y"}, which has no `@type`.
UntypedNested ==
    /\ RootIsObject
    /\ RootEntry("other") # <<>>
    /\ \/ RootEntry("other")[1] = Obj(<< <<"name", Str("y")>> >>)
       \/ /\ RootEntry("other")[1].kind = "array"
          /\ RootEntry("other")[1].items[1] = Obj(<< <<"name", Str("y")>> >>)

\* What name denotes in the context the expansion started from.
OuterName == expand_iri(start_context, "name", FALSE, TRUE)

\* C7: the scoped context of an `@type` value is processed with propagate =
\* false and records the context in effect before it as previous_context;
\* the term name it defines resolves in the typed object itself, and in a
\* nested object without `@type` the previous context is in effect again:
\* name is what it was before (dropped under Standard when undefined).
C7_TypeScopedNotPropagated ==
    TypedPerson =>
        /\ RootContext.ok
        /\ RootContext.val.previous_context = <<start_context>>
        /\ expand_iri(RootContext.val, "name", FALSE, TRUE)
                = Iri("http://p/name")
        /\ \A policy \in {"Standard", "Relaxed"} :
            Succeeded(policy) => \A node \in Nodes(policy) :
                /\ RootEntry("name") # <<>> =>
                    /\ Iri("http://p/name") \in DOMAIN node.props
                    /\ node.props[Iri("http://p/name")]
                            = <<Indexed(ValueObject(Str("x")), <<>>)>>
                /\ UntypedNested =>
                    /\ Iri("http://p/other") \in DOMAIN node.props
                    /\ LET nested == node.props[Iri("http://p/other")][1].inner
                       IN  /\ Iri("http://p/name") \notin DOMAIN nested.props
                           /\ OuterName.ref = "Iri" =>
                                OuterName \in DOMAIN nested.props
                           /\ OuterName.ref = "Invalid" =>
                                DOMAIN nested.props =
                                    IF policy = "Standard" THEN {}
                                    ELSE {Invalid("name")}

\* Scenario 5 has been expanded under Standard and Relaxed.
C7_Witness ==
    /\ TypedPerson
    /\ RootEntry("name") # <<>>
    /\ UntypedNested
    /\ OuterName.ref = "Invalid"
    /\ Succeeded("Standard")
    /\ Succeeded("Relaxed")

\* C8 as stated: success under Strictest implies success under Strict,
\* success under Strict implies success under Standard, and success under
\* Standard implies success under Relaxed.
C8_PolicyConsistency ==
    /\ Succeeded("Strictest") /\ Done("Strict") => Succeeded("Strict")
    /\ Succeeded("Strict") /\ Done("Standard") => Succeeded("Standard")
    /\ Succeeded("Standard") /\ Done("Relaxed") => Succeeded("Relaxed")

\* C8 as amended: success under Strictest implies success under Strict,
\* success under Strict implies success under Standard and under Relaxed,
\* and success under Relaxed implies success under Standard.
C8_PolicyChain ==
    /\ Succeeded("Strictest") /\ Done("Strict") => Succeeded("Strict")
    /\ Succeeded("Strict") /\ Done("Standard") => Succeeded("Standard")
    /\ Succeeded("Strict") /\ Done("Relaxed") => Succeeded("Relaxed")
    /\ Succeeded("Relaxed") /\ Done("Standard") => Succeeded("Standard")

\* A document with a key only Strictest refuses has been expanded under
\* every policy.
C8_Witness ==
    /\ \A policy \in Policies : Done(policy)
    /\ ~Succeeded("Strictest")
    /\ Succeeded("Strict")
    /\ Succeeded("Relaxed")
    /\ Succeeded("Standard")

\* The keys of the root object that expand to no IRI, blank node identifier
\* or keyword.
InvalidKeys ==
    IF RootIsObject /\ RootContext.ok
    THEN {key \in {entry[1] : entry \in Range(input_document.entries)} :
            expand_iri(RootContext.val, key, FALSE, TRUE).ref = "Invalid"}
    ELSE {}

Kept(policy, key) ==
    /\ Nodes(policy) # {}
    /\ \A node \in Nodes(policy) : Invalid(key) \in DOMAIN node.props

Dropped(policy, key) ==
    \A node \in Nodes(policy) : Invalid(key) \notin DOMAIN node.props

\* C9: a key that cannot be expanded is kept as an Invalid reference under
\* Relaxed; under Standard it raises no error and is dropped unless it
\* contains `:`; under Strict it raises KeyExpansionFailed unless it
\* contains `:`; under Strictest it always raises KeyExpansionFailed (when
\* the document has no other fault, which Relaxed would report).
C9_InvalidKeyPerPolicy ==
    \A key \in InvalidKeys :
        /\ Succeeded("Relaxed") => Kept("Relaxed", key)
        /\ ~Failed("Standard", "KeyExpansionFailed")
        /\ Succeeded("Relaxed") /\ Done("Standard") => Succeeded("Standard")
        /\ Succeeded("Standard") =>
                IF contains(key, ":") THEN Kept("Standard", key)
                ELSE Dropped("Standard", key)
        /\ Succeeded("Strict") => contains(key, ":") /\ Kept("Strict", key)
        /\ ~contains(key, ":") /\ Succeeded("Relaxed") /\ Done("Strict") =>
                Failed("Strict", "KeyExpansionFailed")
        /\ ~Succeeded("Strictest")
        /\ Succeeded("Relaxed") /\ Done("Strictest") =>
                Failed("Strictest", "KeyExpansionFailed")

\* A document with the undefined keys foo and :bad has been expanded under
\* every policy.
C9_Witness ==
    /\ {"foo", ":bad"} \subseteq InvalidKeys
    /\ \A policy \in Policies : Done(policy)
    /\ Succeeded("Relaxed")
    /\ Kept("Relaxed", "foo")
    /\ Dropped("Standard", "foo")
    /\ Kept("Standard", ":bad")

=============================================================================
